---- MODULE Spec2Model ----
(***************************************************************************)
(* Model of the content-source bridge of content-source-starter:           *)
(*   - the pure converters of example-source-utils.ts (documents, assets,  *)
(*     update-operation fields), computed as the code computes them;       *)
(*   - the change observer of ExampleContentSource                         *)
(*     (startWatchingContentUpdates / stopWatchingContentUpdates) running  *)
(*     against the store client's observer registry.                       *)
(*                                                                         *)
(* Conventions.  A thrown JavaScript error is a result record with         *)
(* ok = FALSE and the pieces of the message template as a tuple.  String   *)
(* concatenation a + b + c is the tuple <<a, b, c>>.  A record without a   *)
(* key models an object without that property (undefined).                 *)
(***************************************************************************)
EXTENDS Naturals, Integers, Sequences, FiniteSets, TLC

(***************************************************************************)
(* The closed field-type vocabulary, as the switch statements spell it.    *)
(***************************************************************************)
ScalarTypes ==
    {"string", "url", "slug", "text", "markdown", "html", "boolean", "date",
     "datetime", "color", "number", "enum", "file", "json", "style", "richText"}

CompositeTypes == {"object", "model", "cross-reference", "list"}

FieldTypes == ScalarTypes \cup {"image", "reference"} \cup CompositeTypes

(***************************************************************************)
(* Results of a call that may throw.                                       *)
(***************************************************************************)
Ok(v) == [ok |-> TRUE, value |-> v]

Throw(msg) == [ok |-> FALSE, error |-> msg]

\* model.fields on an undefined model (modelMap[document.type] missing)
TypeErrorUndefinedModel == <<"TypeError", "Cannot read properties of undefined", "fields">>

(***************************************************************************)
(* convertExampleDocumentsToStackbitDocuments                              *)
(***************************************************************************)

\* The property names a plain object inherits from Object.prototype.
ObjectPrototypeKeys ==
    {"constructor", "toString", "toLocaleString", "valueOf", "hasOwnProperty",
     "isPrototypeOf", "propertyIsEnumerable", "__proto__", "__defineGetter__",
     "__defineSetter__", "__lookupGetter__", "__lookupSetter__"}

\* modelMap[document.type] is defined: the map has the key itself, or, being
\* a plain object, inherits it from Object.prototype.
HasModel(modelMap, type) == type \in DOMAIN modelMap \/ type \in ObjectPrototypeKeys

\* modelMap[document.type] when defined: the model under the key, or the
\* inherited member of Object.prototype, which has no fields property.
LookupModel(modelMap, type) ==
    IF type \in DOMAIN modelMap THEN modelMap[type] ELSE [inherited |-> type]

\* A find whose predicate accepts every field: the first field, if any.
FindModelField_AnyField(model, fieldName) ==
    IF "fields" \notin DOMAIN model THEN 0
    ELSE IF Len(model.fields) = 0 THEN 0 ELSE 1

\* model.fields?.find((field) => field.name === fieldName): the index of the
\* first field of that name, 0 for undefined (no fields property, or no match).
FindModelField(model, fieldName) ==
    IF "fields" \notin DOMAIN model
    THEN 0
    ELSE LET hits == {i \in 1..Len(model.fields) : model.fields[i].name = fieldName}
         IN  IF hits = {} THEN 0
             ELSE CHOOSE i \in hits : \A j \in hits : i <= j

\* A switch whose image case builds a document reference.
ConvertDocumentField_ImageAsDocument(modelField, fieldValue) ==
    CASE modelField.type \in ScalarTypes ->
            Ok([type |-> modelField.type, value |-> fieldValue])
      [] modelField.type \in {"image", "reference"} ->
            Ok([type |-> "reference", refType |-> "document", refId |-> fieldValue])
      [] modelField.type \in CompositeTypes ->
            Throw(<<"field of type ", modelField.type, " not implemented">>)

\* The switch over modelField.type inside the reducer.
ConvertDocumentField(modelField, fieldValue) ==
    CASE modelField.type \in ScalarTypes ->
            Ok([type |-> modelField.type, value |-> fieldValue])
      [] modelField.type = "image" ->
            Ok([type |-> "reference", refType |-> "asset", refId |-> fieldValue])
      [] modelField.type = "reference" ->
            Ok([type |-> "reference", refType |-> "document", refId |-> fieldValue])
      [] modelField.type \in CompositeTypes ->
            Throw(<<"field of type ", modelField.type, " not implemented">>)

\* fields[fieldName] = value on the accumulator object, a plain object: the
\* key __proto__ is the prototype setter and creates no property; any other
\* key is created or overwritten.  Only own properties are modelled.
SetKey(obj, key, value) ==
    IF key = "__proto__" THEN obj
    ELSE [k \in (DOMAIN obj) \cup {key} |-> IF k = key THEN value ELSE obj[k]]

\* The empty object {}.
EmptyObject == [k \in {} |-> 0]

\* Object.entries(document.fields).reduce(..., {}) from entry i on, fields
\* being the accumulator.  document.fields is the sequence of its
\* [name, value] entries in insertion order.
RECURSIVE ReduceFields(_, _, _, _, _)
ReduceFields(modelMap, type, entries, i, fields) ==
    IF i > Len(entries)
    THEN Ok(fields)
    ELSE IF ~HasModel(modelMap, type)
    THEN Throw(TypeErrorUndefinedModel)
    ELSE LET model == LookupModel(modelMap, type)
             fieldName == entries[i].name
             idx == FindModelField(model, fieldName)
         IN  IF idx = 0
             THEN ReduceFields(modelMap, type, entries, i + 1, fields)
             ELSE LET r == ConvertDocumentField(model.fields[idx], entries[i].value)
                  IN  IF ~r.ok
                      THEN r
                      ELSE ReduceFields(modelMap, type, entries, i + 1,
                                        SetKey(fields, fieldName, r.value))

\* A status mapping whose fallback is 'published'.
DocumentStatus_FallbackPublished(status) ==
    IF status = "draft" THEN "added" ELSE "published"

\* document.status === 'draft' ? 'added' : ... === 'published' ? 'published' : 'modified'
DocumentStatus(status) ==
    IF status = "draft" THEN "added"
    ELSE IF status = "published" THEN "published"
    ELSE "modified"

\* The body of documents.map(...) for one document.
ConvertDocument(document, modelMap, manageUrl) ==
    LET f == ReduceFields(modelMap, document.type, document.fields, 1, EmptyObject)
    IN  IF ~f.ok
        THEN f
        ELSE Ok([type      |-> "document",
                 id        |-> document.id,
                 modelName |-> document.type,
                 status    |-> DocumentStatus(document.status),
                 manageUrl |-> <<manageUrl, "/document/", document.id>>,
                 context   |-> EmptyObject,
                 createdAt |-> document.createdAt,
                 updatedAt |-> document.updatedAt,
                 fields    |-> f.value])

\* A map that catches the error of an element and leaves that element out.
RECURSIVE MapDocuments_SkipFailed(_, _, _, _, _)
MapDocuments_SkipFailed(documents, modelMap, manageUrl, i, out) ==
    IF i > Len(documents)
    THEN Ok(out)
    ELSE LET d == ConvertDocument(documents[i], modelMap, manageUrl)
         IN  MapDocuments_SkipFailed(documents, modelMap, manageUrl, i + 1,
                                     IF d.ok THEN Append(out, d.value) ELSE out)

\* documents.map(...) from document i on, out being the array built so far;
\* an error thrown by one element abandons the whole array.
RECURSIVE MapDocuments(_, _, _, _, _)
MapDocuments(documents, modelMap, manageUrl, i, out) ==
    IF i > Len(documents)
    THEN Ok(out)
    ELSE LET d == ConvertDocument(documents[i], modelMap, manageUrl)
         IN  IF ~d.ok
             THEN d
             ELSE MapDocuments(documents, modelMap, manageUrl, i + 1, Append(out, d.value))

convertExampleDocumentsToStackbitDocuments(documents, modelMap, manageUrl) ==
    MapDocuments(documents, modelMap, manageUrl, 1, <<>>)

(***************************************************************************)
(* convertExampleAssetToStackbitAssets                                     *)
(***************************************************************************)

\* The body of assets.map(...) for one asset; it has no failing branch.
ConvertAsset(asset, manageUrl, siteLocalhost) ==
    [type      |-> "asset",
     id        |-> asset.id,
     createdAt |-> asset.createdAt,
     updatedAt |-> asset.updatedAt,
     status    |-> "published",
     manageUrl |-> <<manageUrl, "/assets/", asset.id>>,
     context   |-> EmptyObject,
     fields    |-> [title |-> [type |-> "string", value |-> asset.title],
                    file  |-> [type |-> "assetFile",
                               url  |-> <<siteLocalhost, asset.url>>,
                               dimensions |-> [width  |-> asset.width,
                                               height |-> asset.height]]]]

convertExampleAssetToStackbitAssets(assets, manageUrl, siteLocalhost) ==
    [i \in 1..Len(assets) |-> ConvertAsset(assets[i], manageUrl, siteLocalhost)]

(***************************************************************************)
(* convertUpdateOperationFieldToExampleDocumentField and its map wrapper   *)
(***************************************************************************)

\* A switch whose scalar case returns the field's type tag, not its value.
convertUpdateOperationFieldToExampleDocumentField_TagForValue(updateOperationField) ==
    CASE updateOperationField.type \in ScalarTypes ->
            Ok(updateOperationField.type)
      [] updateOperationField.type = "reference" ->
            Ok(updateOperationField.refId)
      [] updateOperationField.type \in {"image"} \cup CompositeTypes ->
            Throw(<<"updating field of type ", updateOperationField.type, " not implemented">>)

\* The switch over updateOperationField.type.
convertUpdateOperationFieldToExampleDocumentField(updateOperationField) ==
    CASE updateOperationField.type \in ScalarTypes ->
            Ok(updateOperationField.value)
      [] updateOperationField.type = "reference" ->
            Ok(updateOperationField.refId)
      [] updateOperationField.type \in {"image"} \cup CompositeTypes ->
            Throw(<<"updating field of type ", updateOperationField.type, " not implemented">>)

\* for (const [fieldName, updateOperationField] of Object.entries(...)) from
\* entry i on; the first field that throws abandons the loop.
RECURSIVE ConvertUpdateFieldEntries(_, _, _)
ConvertUpdateFieldEntries(entries, i, fields) ==
    IF i > Len(entries)
    THEN Ok(fields)
    ELSE LET r == convertUpdateOperationFieldToExampleDocumentField(entries[i].field)
         IN  IF ~r.ok
             THEN r
             ELSE ConvertUpdateFieldEntries(entries, i + 1,
                                            SetKey(fields, entries[i].name, r.value))

convertUpdateOperationFieldsToExampleDocumentFields(updateOperationFields) ==
    ConvertUpdateFieldEntries(updateOperationFields, 1, EmptyObject)

(***************************************************************************)
(* Update operations to native fields (updateDocument).                    *)
(***************************************************************************)

\* The JavaScript value undefined, as the value of a property that is set.
Undefined == "undefined"

\* An unset switch that lists image with the composite types.
UnsetOperation_ImageUnsupported(modelField) ==
    IF modelField.type \in ScalarTypes \cup {"reference"}
    THEN Ok(Undefined)
    ELSE Throw(<<"updating field of type ", modelField.type, " not implemented">>)

\* The switch over modelField.type of an unset operation.
UnsetOperation(modelField) ==
    IF modelField.type \in ScalarTypes \cup {"image", "reference"}
    THEN Ok(Undefined)
    ELSE Throw(<<"updating field of type ", modelField.type, " not implemented">>)

\* A loop body that takes every kind other than set for an unset.
OperationValue_UnknownAsUnset(operation) ==
    IF operation.opType = "set"
    THEN convertUpdateOperationFieldToExampleDocumentField(operation.field)
    ELSE Ok(Undefined)

\* The value one operation assigns, or the error it throws.
OperationValue(operation) ==
    CASE operation.opType = "set" ->
            convertUpdateOperationFieldToExampleDocumentField(operation.field)
      [] operation.opType = "unset" -> UnsetOperation(operation.modelField)
      [] OTHER -> Throw(<<"'", operation.opType, "' operation not implemented">>)

\* An assignment that leaves a key alone once it is set.
AssignField_KeepFirst(fields, fieldPath, value) ==
    IF fieldPath[1] \in DOMAIN fields THEN fields ELSE SetKey(fields, fieldPath[1], value)

\* fields[fieldPath[0]] = value
AssignField(fields, fieldPath, value) == SetKey(fields, fieldPath[1], value)

\* The for loop over updateOperations; a throw ends it.
RECURSIVE ApplyOperations(_, _, _)
ApplyOperations(updateOperations, i, fields) ==
    IF i > Len(updateOperations) THEN Ok(fields)
    ELSE LET operation == updateOperations[i]
             v         == OperationValue(operation)
         IN  IF ~v.ok THEN v
             ELSE ApplyOperations(updateOperations, i + 1,
                                  AssignField(fields, operation.fieldPath, v.value))

convertUpdateOperationsToExampleDocumentFields(updateOperations) ==
    ApplyOperations(updateOperations, 1, EmptyObject)

(***************************************************************************)
(* Facade constants.                                                       *)
(***************************************************************************)

\* new ExampleContentSource({ projectId: 'example', ... })
ProjectId == "example"

\* this.manageUrl = `https://example.com/project/${this.projectId}`
ManageUrl == <<"https://example.com/project/", ProjectId>>

\* this.siteLocalhost = siteLocalhost ?? 'http://localhost:3000'
SiteLocalhost == "http://localhost:3000"

(***************************************************************************)
(* Bounded inputs of the converters.                                       *)
(***************************************************************************)

\* Longest document list handed to one translation call.
MaxDocs == 2

\* Longest asset list handed to one translation call.
MaxAssets == 2

\* Field names in declaration order; a model or a document carries any
\* sub-list of them, so a document may carry a field its model lacks.
FieldOrder == <<"title", "author">>

\* The native value stored under each field name.
NativeValue == [title |-> "Hi", author |-> "a1"]

\* Native status values; "changed" stands for any value other than the two
\* the code names.
NativeStatuses == {"draft", "published", "changed"}

\* Model names the host may know, and the document types the store holds.
ModelNames == {"post"}

DocumentTypes == {"post", "page"}

DocumentIds == <<"p1", "p2", "p3", "p4">>

AssetIds == <<"a1", "a2", "a3", "a4">>

\* The elements of order at the indices in S, in order.
RECURSIVE SubSeq2(_, _, _)
SubSeq2(order, S, i) ==
    IF i > Len(order) THEN <<>>
    ELSE IF i \in S THEN <<order[i]>> \o SubSeq2(order, S, i + 1)
    ELSE SubSeq2(order, S, i + 1)

FieldSubLists == {SubSeq2(FieldOrder, S, 1) : S \in SUBSET (1..Len(FieldOrder))}

\* A model field as convertExampleModelsToStackbitModels shapes it.
ModelField(name, type) ==
    IF type = "reference"
    THEN [type |-> type, name |-> name, models |-> <<"person">>]
    ELSE [type |-> type, name |-> name]

\* The type tags a model may give each field: every tag for the first, a
\* supported and a composite one for the second.
ModelFieldTypes ==
    [title |-> FieldTypes, author |-> {"reference", "list"}]

ModelFieldLists ==
    UNION {{[i \in 1..Len(names) |-> ModelField(names[i], types[i])] :
                types \in {t \in [1..Len(names) -> FieldTypes] :
                              \A i \in 1..Len(names) : t[i] \in ModelFieldTypes[names[i]]}} :
              names \in FieldSubLists}

Models(name) ==
    {[type |-> "data", name |-> name, fields |-> fs] : fs \in ModelFieldLists}
        \cup {[type |-> "data", name |-> name]}

ModelMaps ==
    UNION {{[n \in names |-> ms[n]] : ms \in [names -> UNION {Models(n) : n \in names}]} :
              names \in SUBSET ModelNames}

NativeFieldLists ==
    {[i \in 1..Len(names) |-> [name |-> names[i], value |-> NativeValue[names[i]]]] :
        names \in FieldSubLists}

NativeDocument(id, type, status, fields) ==
    [id |-> id, type |-> type, status |-> status,
     createdAt |-> "2023-01-01", updatedAt |-> "2023-01-02", fields |-> fields]

\* Document lists of length n; the i-th document has the i-th id.
NativeDocumentLists(n) ==
    {[i \in 1..n |-> NativeDocument(DocumentIds[i], ty[i], st[i], fl[i])] :
        ty \in [1..n -> DocumentTypes], st \in [1..n -> NativeStatuses],
        fl \in [1..n -> NativeFieldLists]}

\* Inputs that meet Object.prototype: a native field named __proto__, a
\* model that declares it, and a document type named like an inherited
\* member.
InheritedKeyFieldLists ==
    {<<[name |-> "__proto__", value |-> "x"], [name |-> "title", value |-> "Hi"]>>,
     <<[name |-> "title", value |-> "Hi"]>>}

InheritedKeyModelMaps ==
    {[n \in {"post"} |->
         [type |-> "data", name |-> "post",
          fields |-> <<ModelField("__proto__", t), ModelField("title", "string")>>]] :
        t \in {"string", "list"}}
      \cup {[n \in {} |-> [type |-> "data", name |-> n]]}

InheritedKeyDocuments ==
    {NativeDocument("p1", ty, "draft", fl) :
        ty \in {"post", "constructor", "toString"}, fl \in InheritedKeyFieldLists}

NativeAsset(id, width) ==
    [id |-> id, createdAt |-> "2023-01-01", updatedAt |-> "2023-01-02",
     title |-> "Cover", url |-> <<"/images/", id>>, width |-> width, height |-> width + 1]

AssetWidths == {100, 640}

NativeAssetLists(n) ==
    {[i \in 1..n |-> NativeAsset(AssetIds[i], w[i])] : w \in [1..n -> AssetWidths]}

\* An update-operation field of each type tag, carrying value v.
UpdateOperationFields(v) ==
    {[type |-> t, value |-> v] : t \in ScalarTypes \cup CompositeTypes}
        \cup {[type |-> "reference", refType |-> rt, refId |-> v] : rt \in {"document", "asset"}}
        \cup {[type |-> "image", refType |-> "asset", refId |-> v]}

UpdateFieldEntryLists ==
    UNION {{[i \in 1..Len(names) |-> [name |-> names[i], field |-> fs[i]]] :
                fs \in [1..Len(names) -> UNION {UpdateOperationFields(NativeValue[n]) :
                                                   n \in DOMAIN NativeValue}]} :
              names \in FieldSubLists}
      \cup {<<[name |-> "__proto__", field |-> [type |-> "string", value |-> "x"]],
              [name |-> "title", field |-> [type |-> "string", value |-> "Hi"]]>>}

\* Update operations: at most MaxOps per call.
MaxOps == 2

\* Field paths; the last one has a deeper segment.
UpdatePaths == {<<"title">>, <<"author">>, <<"title", "author">>, <<"__proto__">>}

SetOperationTypes == {"string", "reference", "image", "list"}

SetOperations ==
    {[opType |-> "set", fieldPath |-> p, field |-> f] :
        p \in UpdatePaths,
        f \in {g \in UNION {UpdateOperationFields(NativeValue[n]) : n \in DOMAIN NativeValue} :
                  g.type \in SetOperationTypes}}

UnsetOperations ==
    {[opType |-> "unset", fieldPath |-> p, modelField |-> ModelField(p[1], t)] :
        p \in {<<"title">>, <<"author", "title">>}, t \in FieldTypes}
      \cup {[opType |-> "unset", fieldPath |-> <<"__proto__">>,
             modelField |-> ModelField("__proto__", "string")]}

\* Operations of the other kinds of UpdateOperation.
OtherOperations == {[opType |-> k, fieldPath |-> <<"title">>] : k \in {"insert", "remove"}}

UpdateOperations == SetOperations \cup UnsetOperations \cup OtherOperations

\* uploadAsset options: url is missing, empty or set; base64 is missing or
\* set.
UploadOptions ==
    {[fileName |-> f, mimeType |-> "image/png"] : f \in {"a.png", "b.png"}}
        \cup {[fileName |-> f, mimeType |-> "image/png", url |-> u] :
                 f \in {"a.png", "b.png"}, u \in {"", "https://cdn.example.com/a.png"}}
        \cup {[fileName |-> f, mimeType |-> "image/png", base64 |-> "iVBORw0KGgo="] :
                 f \in {"a.png", "b.png"}}
        \cup {[fileName |-> f, mimeType |-> "image/png", base64 |-> "iVBORw0KGgo=", url |-> u] :
                 f \in {"a.png", "b.png"}, u \in {"", "https://cdn.example.com/a.png"}}

(***************************************************************************)
(* The change observer: the callback startWatchingContentUpdates hands to  *)
(* the store.                                                              *)
(***************************************************************************)

\* The contentChange object the callback starts from.
EmptyContentChange ==
    [documents |-> <<>>, assets |-> <<>>, deletedDocumentIds |-> <<>>, deletedAssetIds |-> <<>>]

\* for (const event of events) from event i on.  modelMap is what
\* options.getModelMap() returns while the callback runs.
RECURSIVE CallbackLoop(_, _, _, _)
CallbackLoop(events, i, contentChange, modelMap) ==
    IF i > Len(events)
    THEN Ok(contentChange)
    ELSE LET event == events[i]
         IN  IF event.name = "document-created" \/ event.name = "document-updated"
             THEN LET r == convertExampleDocumentsToStackbitDocuments(
                               <<event.document>>, modelMap, ManageUrl)
                  IN  IF ~r.ok
                      THEN r
                      ELSE CallbackLoop(events, i + 1,
                               [contentChange EXCEPT !.documents = Append(@, r.value[1])],
                               modelMap)
             ELSE IF event.name = "document-deleted"
             THEN CallbackLoop(events, i + 1,
                      [contentChange EXCEPT !.deletedDocumentIds = Append(@, event.documentId)],
                      modelMap)
             ELSE IF event.name = "asset-created"
             THEN CallbackLoop(events, i + 1,
                      [contentChange EXCEPT !.assets =
                          Append(@, convertExampleAssetToStackbitAssets(
                                        <<event.asset>>, ManageUrl, SiteLocalhost)[1])],
                      modelMap)
             ELSE CallbackLoop(events, i + 1, contentChange, modelMap)

Reverse(s) == [i \in 1..Len(s) |-> s[Len(s) + 1 - i]]

\* A callback that unshifts where the code pushes: each list comes out in
\* reverse batch order.
ObserverCallback_Unshift(events, modelMap) ==
    LET r == CallbackLoop(events, 1, EmptyContentChange, modelMap)
    IN  IF r.ok
        THEN Ok([documents          |-> Reverse(r.value.documents),
                 assets             |-> Reverse(r.value.assets),
                 deletedDocumentIds |-> Reverse(r.value.deletedDocumentIds),
                 deletedAssetIds    |-> r.value.deletedAssetIds])
        ELSE r

\* callback: ({ events }) => { ...; return contentChange; }
ObserverCallback(events, modelMap) == CallbackLoop(events, 1, EmptyContentChange, modelMap)

(***************************************************************************)
(* Bounded environment of the observer.                                    *)
(***************************************************************************)

\* Facade calls (start or stop) the host issues in one run.
MaxCalls == 3

\* Native batches the store emits in one run.
MaxEmits == 2

\* Events in one native batch.
MaxBatch == 3

\* Host flows that may call the facade.
Callers == {1, 2}

\* Model maps the host's getModelMap may return.
HostModelMaps ==
    {[post |-> [type |-> "data", name |-> "post",
                fields |-> <<ModelField("title", "string")>>]],
     [post |-> [type |-> "data", name |-> "post",
                fields |-> <<ModelField("title", "text"), ModelField("author", "reference")>>]]}

\* Documents the store's events carry: two posts, and a page, for which the
\* host has no model.
EventDocuments ==
    {NativeDocument("p1", "post", "draft",
                    <<[name |-> "title", value |-> "Hi"], [name |-> "author", value |-> "a1"]>>),
     NativeDocument("p2", "post", "published", <<[name |-> "title", value |-> "Yo"]>>),
     NativeDocument("p4", "page", "published", <<[name |-> "title", value |-> "Hi"]>>)}

\* The events of a batch: two deleted ids, two created assets and two kinds
\* the callback has no branch for.
NativeEvents ==
    {[name |-> "document-created", document |-> d] : d \in EventDocuments}
        \cup {[name |-> "document-updated", document |-> d] : d \in EventDocuments}
        \cup {[name |-> "document-deleted", documentId |-> id] : id \in {"p3", "p4"}}
        \cup {[name |-> "asset-created", asset |-> NativeAsset(id, 100)] : id \in {"a1", "a2"}}
        \cup {[name |-> "asset-deleted", assetId |-> "a1"],
              [name |-> "schema-changed"]}

NativeBatches == UNION {[1..n -> NativeEvents] : n \in 0..MaxBatch}

\* The batches the store emits while the observer runs: one that
\* translates, one of kinds the callback ignores or only copies, and one
\* whose document has no model.
StoreFeed ==
    {<<[name |-> "document-created",
        document |-> NativeDocument("p1", "post", "draft",
                                    <<[name |-> "title", value |-> "Hi"]>>)],
       [name |-> "document-deleted", documentId |-> "p3"]>>,
     <<[name |-> "asset-deleted", assetId |-> "a1"]>>,
     <<[name |-> "document-updated",
        document |-> NativeDocument("p2", "page", "published",
                                    <<[name |-> "title", value |-> "Hi"]>>)]>>}

(***************************************************************************)
(* State.                                                                  *)
(***************************************************************************)
VARIABLES
    convIn,         \* the arguments of the converter call under test
    convOut,        \* its outcome, once it has run
    call,           \* the one-shot facade call each host flow has pending
    result,         \* the outcome of the one-shot call each host flow completed last
    apiClient,      \* ExampleContentSource.apiClient: the number of the store client
                    \* init() created last; 0 is undefined (init() has not run)
    inits,          \* init() calls begun
    observerId,     \* ExampleContentSource.observerId; 0 is undefined
    pc,             \* where each host flow stands in a facade call
    arg,            \* the handle each pending stopObservingContentChanges carries
    target,         \* the store client each flow's pending store call was made on
    storeObservers, \* the live subscriptions of all store clients, by handle
    storeOwner,     \* the store client that issued each handle
    storeNextId,    \* the next handle a store client hands out
    storeWebhook,   \* whether the store has the webhook 'stackbit-content-source'
    storeDocuments, \* the store's documents, by id
    storeCalls,     \* the calls the facade has made to the store, in order
    hostModelMap,   \* what the host's getModelMap returns now
    lastEmit,       \* the last native batch and what each callback made of it
    observed,       \* callback invocations so far (one per batch and live subscription)
    delivered,      \* change events handed to the host's onContentChange, in order,
                    \* each with whether that call has returned
    lastDone,       \* the facade call that completed last
    calls,          \* facade calls begun
    emits           \* native batches emitted

convVars == <<convIn, convOut, call, result>>

facadeVars == <<apiClient, inits, observerId, pc, arg, target, storeCalls, lastDone, calls>>

storeVars == <<storeObservers, storeOwner, storeNextId, storeWebhook, storeDocuments>>

emitVars == <<lastEmit, observed, delivered, emits>>

vars == <<convIn, convOut, call, result, apiClient, inits, observerId, pc, arg, target, storeObservers,
          storeOwner, storeNextId, storeWebhook, storeCalls, storeDocuments, hostModelMap, lastEmit, observed, delivered, lastDone, calls, emits>>

NotCalled == [called |-> FALSE]

NoCall == [op |-> "none"]

\* No one-shot facade call is pending or has completed.
InitCalls ==
    /\ call = [c \in Callers |-> NoCall]
    /\ result = [c \in Callers |-> NotCalled]

Returned(r) == [called |-> TRUE, ok |-> TRUE, value |-> r]

Outcome(r) ==
    IF r.ok THEN Returned(r.value) ELSE [called |-> TRUE, ok |-> FALSE, error |-> r.error]

NativeDocumentListsUpTo(n) == UNION {NativeDocumentLists(k) : k \in 0..n}

NativeAssetListsUpTo(n) == UNION {NativeAssetLists(k) : k \in 0..n}

\* The arguments of one converter call.
InitConvIn ==
    \/ \E ds \in NativeDocumentListsUpTo(MaxDocs), mm \in ModelMaps :
          convIn = [op |-> "getDocuments", documents |-> ds, modelMap |-> mm]
    \/ \E d \in InheritedKeyDocuments, mm \in InheritedKeyModelMaps :
          convIn = [op |-> "getDocuments", documents |-> <<d>>, modelMap |-> mm]
    \/ \E as \in NativeAssetListsUpTo(MaxAssets) :
          convIn = [op |-> "getAssets", assets |-> as]
    \/ \E es \in UpdateFieldEntryLists :
          convIn = [op |-> "createDocument", updateOperationFields |-> es]
    \/ \E es \in NativeBatches, mm \in HostModelMaps :
          convIn = [op |-> "observerCallback", events |-> es, modelMap |-> mm]
    \/ \E n \in 0..MaxOps : \E ops \in [1..n -> UpdateOperations] :
          convIn = [op |-> "updateDocument", operations |-> ops]
    \/ \E t \in ScalarTypes, n \in DOMAIN NativeValue :
          convIn = [op |-> "codecRoundTrip", type |-> t, name |-> n, value |-> NativeValue[n]]

NoEmit == [emitted |-> FALSE]

\* The store's content before any call: one draft post.
InitialStoreDocuments ==
    [id \in {"p1"} |->
        NativeDocument(id, "post", "draft", <<[name |-> "title", value |-> "Hi"]>>)]

\* The facade after construction: no store client, no handle; the store has
\* no subscription and no webhook.
InitObserver ==
    /\ apiClient = 0
    /\ inits = 0
    /\ observerId = 0
    /\ pc = [c \in Callers |-> "idle"]
    /\ arg = [c \in Callers |-> 0]
    /\ target = [c \in Callers |-> 0]
    /\ storeObservers = {}
    /\ storeOwner = <<>>
    /\ storeNextId = 1
    /\ storeWebhook = FALSE
    /\ storeCalls = <<>>
    /\ storeDocuments = InitialStoreDocuments
    /\ lastEmit = NoEmit
    /\ observed = 0
    /\ delivered = <<>>
    /\ lastDone = "none"
    /\ calls = 0
    /\ emits = 0

observerVars == <<apiClient, inits, observerId, pc, arg, target, storeObservers, storeOwner,
                  storeNextId, storeWebhook, storeCalls, storeDocuments, hostModelMap, lastEmit, observed, delivered, lastDone, calls, emits>>

InitConv ==
    /\ InitConvIn
    /\ convOut = NotCalled
    /\ InitCalls
    /\ InitObserver
    /\ hostModelMap = CHOOSE m \in HostModelMaps : Len(m.post.fields) = 1

\* The document converter on a list of native documents.
ConvertDocuments ==
    /\ convIn.op = "getDocuments"
    /\ convOut = NotCalled
    /\ convOut' = Outcome(convertExampleDocumentsToStackbitDocuments(
                              convIn.documents, convIn.modelMap, ManageUrl))
    /\ UNCHANGED <<convIn, call, result, observerVars>>

\* The asset converter on a list of native assets.
ConvertAssets ==
    /\ convIn.op = "getAssets"
    /\ convOut = NotCalled
    /\ convOut' = Returned(convertExampleAssetToStackbitAssets(
                               convIn.assets, ManageUrl, SiteLocalhost))
    /\ UNCHANGED <<convIn, call, result, observerVars>>

\* The field-map converter on createDocument's update-operation fields.
CreateDocumentFields ==
    /\ convIn.op = "createDocument"
    /\ convOut = NotCalled
    /\ convOut' = Outcome(convertUpdateOperationFieldsToExampleDocumentFields(
                              convIn.updateOperationFields))
    /\ UNCHANGED <<convIn, call, result, observerVars>>

\* The store invokes the observer's callback on a native batch.
RunObserverCallback ==
    /\ convIn.op = "observerCallback"
    /\ convOut = NotCalled
    /\ convOut' = Outcome(ObserverCallback(convIn.events, convIn.modelMap))
    /\ UNCHANGED <<convIn, call, result, observerVars>>

\* The operations converter on updateDocument's operations.
UpdateDocumentFields ==
    /\ convIn.op = "updateDocument"
    /\ convOut = NotCalled
    /\ convOut' = Outcome(convertUpdateOperationsToExampleDocumentFields(convIn.operations))
    /\ UNCHANGED <<convIn, call, result, observerVars>>

\* One value through both directions of the field codec, as createDocument
\* and updateDocument chain them: an update-operation field to its native
\* value and that value back to a document field, and a native value to its
\* document field and that field, passed as an update-operation field, back
\* to a native value.
CodecRoundTrip ==
    /\ convIn.op = "codecRoundTrip"
    /\ convOut = NotCalled
    /\ LET modelField == ModelField(convIn.name, convIn.type)
           native     == convertUpdateOperationFieldToExampleDocumentField(
                             [type |-> convIn.type, value |-> convIn.value])
           normalized == ConvertDocumentField(modelField, convIn.value)
       IN  convOut' = Returned(
               [nativeThenNormalized |->
                    IF native.ok THEN ConvertDocumentField(modelField, native.value)
                    ELSE native,
                normalizedThenNative |->
                    IF normalized.ok
                    THEN convertUpdateOperationFieldToExampleDocumentField(normalized.value)
                    ELSE normalized])
    /\ UNCHANGED <<convIn, call, result, observerVars>>

NextConv ==
    \/ ConvertDocuments
    \/ ConvertAssets
    \/ CreateDocumentFields
    \/ RunObserverCallback
    \/ CodecRoundTrip
    \/ UpdateDocumentFields

SpecConv == InitConv /\ [][NextConv]_vars


(***************************************************************************)
(* The store client's observer registry (example-api-client, the          *)
(* collaborator behind startObservingContentChanges and                    *)
(* stopObservingContentChanges).                                           *)
(***************************************************************************)

\* startObservingContentChanges({ callback }): registers the callback under
\* a fresh handle and returns the handle.
StoreSubscribe(observers, nextId) ==
    [observers |-> observers \cup {nextId}, handle |-> nextId, nextId |-> nextId + 1]

\* stopObservingContentChanges({ observerId }) on a store client: drops that
\* subscription if the client holds it; any other handle changes nothing.
StoreUnsubscribe(observers, owner, client, handle) ==
    IF handle \in observers /\ owner[handle] = client THEN observers \ {handle} ELSE observers

(***************************************************************************)
(* init().  It replaces the store client, and with a webhook url it looks  *)
(* up the webhook and creates it when the store has none.                  *)
(***************************************************************************)

AllIdle == \A c \in Callers : pc[c] = "idle"

\* init() calls the host makes in one run.
MaxInits == 2

\* The webhookUrl option: missing, empty or set.
WebhookUrls == {"undefined", "", "https://hook.example.com/stackbit"}

\* this.x.m(...) with this.x undefined
TypeErrorUndefined(prop) == <<"TypeError", "Cannot read properties of undefined", prop>>

\* init() up to its first await, or to its return when no webhook url is
\* given: a new store client replaces the old one; observerId stays.
InitBegin(c, webhookUrl) ==
    /\ pc[c] = "idle"
    /\ inits < MaxInits
    /\ inits' = inits + 1
    /\ apiClient' = inits + 1
    /\ IF webhookUrl \notin {"undefined", ""}
       THEN /\ pc' = [pc EXCEPT ![c] = "init:getWebhook"]
            /\ target' = [target EXCEPT ![c] = inits + 1]
            /\ storeCalls' = Append(storeCalls, [op |-> "getWebhook", client |-> inits + 1])
            /\ lastDone' = lastDone
       ELSE /\ pc' = pc
            /\ target' = target
            /\ storeCalls' = storeCalls
            /\ lastDone' = "init"
    /\ UNCHANGED <<observerId, arg, calls, storeVars, hostModelMap, emitVars, convVars>>

\* getWebhook has answered: with a webhook init() returns, without one it
\* asks the current store client to create it.
InitGotWebhook(c) ==
    /\ pc[c] = "init:getWebhook"
    /\ IF storeWebhook
       THEN /\ pc' = [pc EXCEPT ![c] = "idle"]
            /\ target' = [target EXCEPT ![c] = 0]
            /\ storeCalls' = storeCalls
            /\ lastDone' = "init"
       ELSE /\ pc' = [pc EXCEPT ![c] = "init:createWebhook"]
            /\ target' = [target EXCEPT ![c] = apiClient]
            /\ storeCalls' = Append(storeCalls, [op |-> "createWebhook", client |-> apiClient])
            /\ lastDone' = lastDone
    /\ UNCHANGED <<apiClient, inits, observerId, arg, calls, storeVars, hostModelMap,
                   emitVars, convVars>>

\* createWebhook has answered; init() returns.
InitCreatedWebhook(c) ==
    /\ pc[c] = "init:createWebhook"
    /\ storeWebhook' = TRUE
    /\ pc' = [pc EXCEPT ![c] = "idle"]
    /\ target' = [target EXCEPT ![c] = 0]
    /\ lastDone' = "init"
    /\ UNCHANGED <<apiClient, inits, observerId, arg, calls, storeCalls, storeObservers,
                   storeOwner, storeNextId, storeDocuments, hostModelMap, emitVars, convVars>>

(***************************************************************************)
(* startWatchingContentUpdates / stopWatchingContentUpdates.  Each await   *)
(* splits a call into steps: the step before the await issues the store    *)
(* call, the step after it is the store's reply and the continuation.      *)
(***************************************************************************)

\* StartBegin without the "if (this.observerId) await stop" prologue.
StartBegin_NoStop(c) ==
    /\ pc[c] = "idle"
    /\ calls < MaxCalls
    /\ calls' = calls + 1
    /\ IF apiClient = 0
       THEN /\ pc' = pc
            /\ target' = target
            /\ storeCalls' = storeCalls
            /\ lastDone' = "start:rejected"
       ELSE /\ pc' = [pc EXCEPT ![c] = "start:subscribing"]
            /\ target' = [target EXCEPT ![c] = apiClient]
            /\ storeCalls' = Append(storeCalls,
                                    [op |-> "start", observerId |-> 0, client |-> apiClient])
            /\ lastDone' = lastDone
    /\ UNCHANGED <<apiClient, inits, arg, observerId, storeVars, hostModelMap, emitVars,
                   convVars>>

\* startWatchingContentUpdates up to its first await: with a stored handle
\* it enters stopWatchingContentUpdates, which passes the handle to the
\* store; without one it goes straight to the subscription, and is rejected
\* with a TypeError there when init() has not created the store client.
StartBegin(c) ==
    /\ pc[c] = "idle"
    /\ calls < MaxCalls
    /\ calls' = calls + 1
    /\ IF observerId # 0
       THEN /\ pc' = [pc EXCEPT ![c] = "start:stopping"]
            /\ arg' = [arg EXCEPT ![c] = observerId]
            /\ target' = [target EXCEPT ![c] = apiClient]
            /\ storeCalls' = Append(storeCalls, [op |-> "stop", observerId |-> observerId,
                                                 client |-> apiClient])
            /\ lastDone' = lastDone
       ELSE IF apiClient = 0
       THEN /\ pc' = pc
            /\ arg' = arg
            /\ target' = target
            /\ storeCalls' = storeCalls
            /\ lastDone' = "start:rejected"
       ELSE /\ pc' = [pc EXCEPT ![c] = "start:subscribing"]
            /\ arg' = arg
            /\ target' = [target EXCEPT ![c] = apiClient]
            /\ storeCalls' = Append(storeCalls,
                                    [op |-> "start", observerId |-> 0, client |-> apiClient])
            /\ lastDone' = lastDone
    /\ UNCHANGED <<apiClient, inits, observerId, storeVars, hostModelMap, emitVars, convVars>>

\* The inner stop has returned: the store client it was made on has dropped
\* the handle if it held it, and start goes on to subscribe on the current
\* store client.
StartStopped(c) ==
    /\ pc[c] = "start:stopping"
    /\ storeObservers' = StoreUnsubscribe(storeObservers, storeOwner, target[c], arg[c])
    /\ pc' = [pc EXCEPT ![c] = "start:subscribing"]
    /\ arg' = [arg EXCEPT ![c] = 0]
    /\ target' = [target EXCEPT ![c] = apiClient]
    /\ storeCalls' = Append(storeCalls, [op |-> "start", observerId |-> 0, client |-> apiClient])
    /\ UNCHANGED <<apiClient, inits, observerId, lastDone, calls, storeOwner, storeNextId,
                   storeWebhook, storeDocuments, hostModelMap, emitVars, convVars>>

\* The store client has registered the callback; this.observerId = the new
\* handle.
StartSubscribed(c) ==
    /\ pc[c] = "start:subscribing"
    /\ LET r == StoreSubscribe(storeObservers, storeNextId)
       IN  /\ storeObservers' = r.observers
           /\ storeNextId' = r.nextId
           /\ storeOwner' = Append(storeOwner, target[c])
           /\ observerId' = r.handle
    /\ pc' = [pc EXCEPT ![c] = "idle"]
    /\ target' = [target EXCEPT ![c] = 0]
    /\ lastDone' = "start"
    /\ UNCHANGED <<apiClient, inits, arg, storeCalls, calls, storeWebhook, storeDocuments,
                   hostModelMap, emitVars, convVars>>

\* StopBegin that returns without telling the store.
StopBegin_NoStoreCall(c) ==
    /\ pc[c] = "idle"
    /\ calls < MaxCalls
    /\ calls' = calls + 1
    /\ lastDone' = "stop"
    /\ UNCHANGED <<apiClient, inits, pc, arg, target, storeCalls, observerId, storeVars,
                   hostModelMap, emitVars, convVars>>

\* stopWatchingContentUpdates up to its await: with a stored handle it
\* passes the handle to the current store client; without one it returns at
\* once.
StopBegin(c) ==
    /\ pc[c] = "idle"
    /\ calls < MaxCalls
    /\ calls' = calls + 1
    /\ IF observerId # 0
       THEN /\ pc' = [pc EXCEPT ![c] = "stop:stopping"]
            /\ arg' = [arg EXCEPT ![c] = observerId]
            /\ target' = [target EXCEPT ![c] = apiClient]
            /\ storeCalls' = Append(storeCalls, [op |-> "stop", observerId |-> observerId,
                                                 client |-> apiClient])
            /\ lastDone' = lastDone
       ELSE /\ pc' = pc
            /\ arg' = arg
            /\ target' = target
            /\ storeCalls' = storeCalls
            /\ lastDone' = "stop"
    /\ UNCHANGED <<apiClient, inits, observerId, storeVars, hostModelMap, emitVars, convVars>>

\* The store client has dropped the handle if it held it;
\* stopWatchingContentUpdates returns.  observerId keeps its value.
StopStopped(c) ==
    /\ pc[c] = "stop:stopping"
    /\ storeObservers' = StoreUnsubscribe(storeObservers, storeOwner, target[c], arg[c])
    /\ pc' = [pc EXCEPT ![c] = "idle"]
    /\ arg' = [arg EXCEPT ![c] = 0]
    /\ target' = [target EXCEPT ![c] = 0]
    /\ lastDone' = "stop"
    /\ UNCHANGED <<apiClient, inits, observerId, storeCalls, calls, storeOwner, storeNextId,
                   storeWebhook, storeDocuments, hostModelMap, emitVars, convVars>>

\* A callback that hands each change event to options.onContentChange and
\* does not wait for the promise it returns: the delivery is in progress when
\* the callback returns.
Deliver_NoAwait(deliveries, results) ==
    LET hs == {h \in DOMAIN results : results[h].ok}
        RECURSIVE Add(_, _)
        Add(ds, rest) ==
            IF rest = {} THEN ds
            ELSE LET h == CHOOSE x \in rest : \A y \in rest : x <= y
                 IN  Add(Append(ds, [event |-> results[h].value, done |-> FALSE]), rest \ {h})
    IN  Add(deliveries, hs)

\* What the callbacks of a batch hand to options.onContentChange: nothing.
\* Each callback returns its change event to the store client and the class
\* has no call of options.onContentChange.
Deliver(deliveries, results) == deliveries

\* The store emits a native batch: it invokes the callback of every live
\* subscription.  The callback runs to its return statement in one step;
\* it returns the change event to the store and makes no call to
\* options.onContentChange.
\* A callback that keeps the model map of the batch before, once it has one.
StoreEmit_CachedMap(events) ==
    /\ emits < MaxEmits
    /\ emits' = emits + 1
    /\ LET modelMap == IF lastEmit.emitted THEN lastEmit.modelMap ELSE hostModelMap
       IN  lastEmit' = [emitted |-> TRUE, events |-> events, modelMap |-> modelMap,
                        earlier |-> IF lastEmit.emitted THEN <<lastEmit.modelMap>> ELSE <<>>,
                        results |-> [h \in storeObservers |->
                                        ObserverCallback(events, modelMap)]]
    /\ observed' = observed + Cardinality(storeObservers)
    /\ delivered' = Deliver(delivered, lastEmit'.results)
    /\ UNCHANGED <<facadeVars, storeVars, hostModelMap, convVars>>

StoreEmit(events) ==
    /\ emits < MaxEmits
    /\ emits' = emits + 1
    /\ lastEmit' = [emitted |-> TRUE, events |-> events, modelMap |-> hostModelMap,
                    earlier |-> IF lastEmit.emitted THEN <<lastEmit.modelMap>> ELSE <<>>,
                    results |-> [h \in storeObservers |-> ObserverCallback(events, hostModelMap)]]
    /\ observed' = observed + Cardinality(storeObservers)
    /\ delivered' = Deliver(delivered, lastEmit'.results)
    /\ UNCHANGED <<facadeVars, storeVars, hostModelMap, convVars>>

\* The host's schema changes: getModelMap returns another map from now on.
HostModelMapChange(m) ==
    /\ m # hostModelMap
    /\ hostModelMap' = m
    /\ UNCHANGED <<facadeVars, storeVars, emitVars, convVars>>

Init ==
    /\ InitObserver
    /\ hostModelMap \in HostModelMaps
    /\ convIn = [op |-> "none"]
    /\ convOut = NotCalled
    /\ InitCalls

\* The host issues each facade call after the previous one has completed.
InitCall(c, webhookUrl) == AllIdle /\ InitBegin(c, webhookUrl)

StartCall(c) == AllIdle /\ StartBegin(c)

StopCall(c) == AllIdle /\ StopBegin(c)

Next ==
    \/ \E c \in Callers, w \in WebhookUrls : InitCall(c, w)
    \/ \E c \in Callers : InitGotWebhook(c)
    \/ \E c \in Callers : InitCreatedWebhook(c)
    \/ \E c \in Callers : StartCall(c)
    \/ \E c \in Callers : StartStopped(c)
    \/ \E c \in Callers : StartSubscribed(c)
    \/ \E c \in Callers : StopCall(c)
    \/ \E c \in Callers : StopStopped(c)
    \/ \E events \in StoreFeed : StoreEmit(events)
    \/ \E m \in HostModelMaps : HostModelMapChange(m)

Spec == Init /\ [][Next]_vars

\* The host's flows issue facade calls without waiting for one another.
NextOverlap ==
    \/ \E c \in Callers, w \in WebhookUrls : InitBegin(c, w)
    \/ \E c \in Callers : InitGotWebhook(c)
    \/ \E c \in Callers : InitCreatedWebhook(c)
    \/ \E c \in Callers : StartBegin(c)
    \/ \E c \in Callers : StartStopped(c)
    \/ \E c \in Callers : StartSubscribed(c)
    \/ \E c \in Callers : StopBegin(c)
    \/ \E c \in Callers : StopStopped(c)
    \/ \E events \in StoreFeed : StoreEmit(events)
    \/ \E m \in HostModelMaps : HostModelMapChange(m)

SpecOverlap == Init /\ [][NextOverlap]_vars

(***************************************************************************)
(* The one-shot facade methods.  Each is an async method with one await,   *)
(* on its store call: the step up to the await issues the store call (or   *)
(* rejects), the step after it is the store's answer and the rest of the   *)
(* method.  Calls of different host flows interleave at the awaits.        *)
(***************************************************************************)

\* One-shot facade calls the host makes in one run.
MaxFacadeCalls == 2

\* The size uploadAsset passes to the store.
UploadWidth == 100

UploadHeight == 100

\* The assets the store may answer an upload with: it keeps the title and
\* the size, and chooses the id and the url under which it serves the file.
StoreUploadAsset(request) ==
    {[id |-> AssetIds[i], createdAt |-> "2023-01-03", updatedAt |-> "2023-01-03",
      title |-> request.title, url |-> <<dir, AssetIds[i]>>,
      width |-> request.width, height |-> request.height] :
        i \in {1, 2}, dir \in {"/images/", "/uploads/"}}

\* The asset lists the store may answer getAssets with.
StoreGetAssets == NativeAssetListsUpTo(1)

\* The store's documents, as getDocuments answers with them.
StoreGetDocuments(documents) ==
    LET ids == SelectSeq(DocumentIds, LAMBDA id : id \in DOMAIN documents)
    IN  [i \in 1..Len(ids) |-> documents[ids[i]]]

\* The native field list of a fields object: its defined properties.
FieldEntries(fields) ==
    LET names == SelectSeq(FieldOrder,
                           LAMBDA n : n \in DOMAIN fields /\ fields[n] # Undefined)
    IN  [i \in 1..Len(names) |-> [name |-> names[i], value |-> fields[names[i]]]]

\* The fields object of a native field list.
FieldsObject(entries) ==
    [n \in {entries[i].name : i \in 1..Len(entries)} |->
        (CHOOSE e \in {entries[i] : i \in 1..Len(entries)} : e.name = n).value]

\* The store adds a draft document of the type with the fields, under the
\* first free id, and answers with it.
StoreCreateDocument(documents, request) ==
    LET i        == CHOOSE k \in 1..Len(DocumentIds) :
                        /\ DocumentIds[k] \notin DOMAIN documents
                        /\ \A l \in 1..(k - 1) : DocumentIds[l] \in DOMAIN documents
        document == NativeDocument(DocumentIds[i], request.type, "draft",
                                   FieldEntries(request.fields))
    IN  [documents |-> [id \in DOMAIN documents \cup {document.id} |->
                           IF id = document.id THEN document ELSE documents[id]],
         document  |-> document]

\* The store writes the patch over the document's fields and answers with
\* the document.
StoreUpdateDocument(documents, request) ==
    LET old      == documents[request.documentId]
        before   == FieldsObject(old.fields)
        merged   == [n \in DOMAIN before \cup DOMAIN request.fields |->
                        IF n \in DOMAIN request.fields THEN request.fields[n] ELSE before[n]]
        document == [old EXCEPT !.fields = FieldEntries(merged)]
    IN  [documents |-> [documents EXCEPT ![request.documentId] = document],
         document  |-> document]

\* The store drops the document; an id it does not hold changes nothing.
StoreDeleteDocument(documents, request) ==
    [id \in DOMAIN documents \ {request.documentId} |-> documents[id]]

\* The store marks the documents it holds among the ids as published.
StorePublishDocuments(documents, request) ==
    [id \in DOMAIN documents |->
        IF \E i \in 1..Len(request.documentIds) : request.documentIds[i] = id
        THEN [documents[id] EXCEPT !.status = "published"]
        ELSE documents[id]]

\* !options.url
NoUrl(options) == "url" \notin DOMAIN options \/ options.url = ""

\* What the host passes to the one-shot methods; as options.modelMap it
\* passes its model map.
FacadeFieldLists ==
    {<<[name |-> "title", field |-> [type |-> "string", value |-> "New"]]>>,
     <<[name |-> "title", field |-> [type |-> "string", value |-> "New"]],
       [name |-> "author", field |-> [type |-> "reference", refType |-> "document",
                                      refId |-> "p1"]]>>,
     <<[name |-> "title", field |-> [type |-> "string", value |-> "New"]],
       [name |-> "author", field |-> [type |-> "list", value |-> "New"]]>>,
     <<[name |-> "title", field |-> [type |-> "image", refType |-> "asset",
                                     refId |-> "a1"]]>>}

FacadeOperationLists ==
    {<<>>,
     <<[opType |-> "set", fieldPath |-> <<"title">>,
        field |-> [type |-> "string", value |-> "New"]]>>,
     <<[opType |-> "unset", fieldPath |-> <<"title">>,
        modelField |-> ModelField("title", "string")]>>,
     <<[opType |-> "set", fieldPath |-> <<"title">>,
        field |-> [type |-> "string", value |-> "New"]],
       [opType |-> "remove", fieldPath |-> <<"title">>]>>,
     <<[opType |-> "unset", fieldPath |-> <<"title">>,
        modelField |-> ModelField("title", "list")]>>}

FacadeUploadOptions == {o \in UploadOptions : o.fileName = "a.png" /\ "base64" \notin DOMAIN o}

\* deleteDocument is asked for a document other than the one updateDocument
\* edits.
FacadeDeleteIds == {"p2"}

FacadePublishIds == {<<"p1">>, <<"p1", "p2">>}

\* What a one-shot call leaves unchanged whatever it does.
oneShotFrame ==
    <<convIn, convOut, apiClient, inits, observerId, arg, target, storeObservers, storeOwner,
      storeNextId, storeWebhook, hostModelMap, emitVars, lastDone>>

\* The record of a completed call.
Completed(pending, r) ==
    IF r.ok
    THEN [called |-> TRUE, op |-> pending.op, call |-> pending.call,
          client |-> pending.client, options |-> pending.options,
          ok |-> TRUE, value |-> r.value]
    ELSE [called |-> TRUE, op |-> pending.op, call |-> pending.call,
          client |-> pending.client, options |-> pending.options,
          ok |-> FALSE, error |-> r.error]

\* The call rejects before it reaches its await.
Reject(c, p, error) ==
    /\ result' = [result EXCEPT ![c] = Completed(p, Throw(error))]
    /\ UNCHANGED <<pc, call, storeCalls, storeDocuments>>

\* The call issues its store call on the current store client and awaits
\* the answer.
Await(c, p, request) ==
    /\ pc' = [pc EXCEPT ![c] = p.op]
    /\ call' = [call EXCEPT ![c] = p]
    /\ storeCalls' = Append(storeCalls, [op |-> p.op, client |-> p.client, call |-> p.call,
                                         request |-> request])
    /\ UNCHANGED <<result, storeDocuments>>

\* The call returns or rejects after its await.
Settle(c, r) ==
    /\ result' = [result EXCEPT ![c] = Completed(call[c], r)]
    /\ pc' = [pc EXCEPT ![c] = "idle"]
    /\ call' = [call EXCEPT ![c] = NoCall]
    /\ UNCHANGED <<storeCalls, calls>>

\* A host flow begins a one-shot call.
Begins(c) ==
    /\ pc[c] = "idle"
    /\ calls < MaxFacadeCalls
    /\ calls' = calls + 1

PendingCall(op, options) ==
    [op |-> op, call |-> calls + 1, client |-> apiClient, options |-> options]

\* getDocuments up to its await.  Without a logger (init() has not run) the
\* first statement throws.
GetDocumentsBegin(c) ==
    /\ Begins(c)
    /\ LET p == PendingCall("getDocuments", [modelMap |-> hostModelMap])
       IN  IF apiClient = 0
           THEN Reject(c, p, TypeErrorUndefined("debug"))
           ELSE Await(c, p, EmptyObject)
    /\ UNCHANGED oneShotFrame

\* The store has answered with its documents; getDocuments converts them.
GetDocumentsDone(c) ==
    /\ pc[c] = "getDocuments"
    /\ Settle(c, convertExampleDocumentsToStackbitDocuments(
                     StoreGetDocuments(storeDocuments), call[c].options.modelMap, ManageUrl))
    /\ UNCHANGED <<storeDocuments, oneShotFrame>>

\* getAssets up to its await.
GetAssetsBegin(c) ==
    /\ Begins(c)
    /\ LET p == PendingCall("getAssets", EmptyObject)
       IN  IF apiClient = 0
           THEN Reject(c, p, TypeErrorUndefined("debug"))
           ELSE Await(c, p, EmptyObject)
    /\ UNCHANGED oneShotFrame

\* The store has answered with its assets; getAssets converts them.
GetAssetsDone(c) ==
    /\ pc[c] = "getAssets"
    /\ \E assets \in StoreGetAssets :
          Settle(c, Ok(convertExampleAssetToStackbitAssets(assets, ManageUrl, SiteLocalhost)))
    /\ UNCHANGED <<storeDocuments, oneShotFrame>>

\* createDocument up to its await: the fields are converted first, and a
\* failing conversion rejects the call.
CreateDocumentBegin(c, updateOperationFields) ==
    /\ Begins(c)
    /\ LET p      == PendingCall("createDocument",
                             [updateOperationFields |-> updateOperationFields,
                              model |-> hostModelMap["post"], modelMap |-> hostModelMap])
           fields == convertUpdateOperationFieldsToExampleDocumentFields(updateOperationFields)
       IN  IF apiClient = 0
           THEN Reject(c, p, TypeErrorUndefined("debug"))
           ELSE IF ~fields.ok
           THEN Reject(c, p, fields.error)
           ELSE Await(c, p, [type |-> p.options.model.name, fields |-> fields.value])
    /\ UNCHANGED oneShotFrame

\* The store call a pending call made.
StoreCallOf(c) ==
    LET i == CHOOSE k \in 1..Len(storeCalls) :
                 "call" \in DOMAIN storeCalls[k] /\ storeCalls[k].call = call[c].call
    IN  storeCalls[i]

\* The store has created the document; createDocument converts it.
CreateDocumentDone(c) ==
    /\ pc[c] = "createDocument"
    /\ LET r == StoreCreateDocument(storeDocuments, StoreCallOf(c).request)
       IN  /\ storeDocuments' = r.documents
           /\ Settle(c, LET t == convertExampleDocumentsToStackbitDocuments(
                                     <<r.document>>, call[c].options.modelMap, ManageUrl)
                        IN  IF t.ok THEN Ok(t.value[1]) ELSE t)
    /\ UNCHANGED oneShotFrame

\* An updateDocument that sends the store an empty patch when the conversion
\* of its operations fails, and then throws.
UpdateDocumentBegin_StoreBeforeThrow(c, operations) ==
    /\ Begins(c)
    /\ LET p      == PendingCall("updateDocument",
                             [document |-> [id |-> "p1"], operations |-> operations,
                              modelMap |-> hostModelMap])
           fields == convertUpdateOperationsToExampleDocumentFields(operations)
       IN  IF apiClient = 0
           THEN Reject(c, p, TypeErrorUndefined("debug"))
           ELSE IF ~fields.ok
           THEN /\ result' = [result EXCEPT ![c] = Completed(p, fields)]
                /\ storeCalls' = Append(storeCalls,
                                        [op |-> p.op, client |-> p.client, call |-> p.call,
                                         request |-> [documentId |-> p.options.document.id,
                                                      fields |-> EmptyObject]])
                /\ UNCHANGED <<pc, call, storeDocuments>>
           ELSE Await(c, p, [documentId |-> p.options.document.id, fields |-> fields.value])
    /\ UNCHANGED oneShotFrame

\* updateDocument up to its await: the operations are converted first, and a
\* failing conversion rejects the call.
UpdateDocumentBegin(c, operations) ==
    /\ Begins(c)
    /\ LET p      == PendingCall("updateDocument",
                             [document |-> [id |-> "p1"], operations |-> operations,
                              modelMap |-> hostModelMap])
           fields == convertUpdateOperationsToExampleDocumentFields(operations)
       IN  IF apiClient = 0
           THEN Reject(c, p, TypeErrorUndefined("debug"))
           ELSE IF ~fields.ok
           THEN Reject(c, p, fields.error)
           ELSE Await(c, p, [documentId |-> p.options.document.id, fields |-> fields.value])
    /\ UNCHANGED oneShotFrame

\* The store has patched the document; updateDocument converts it.
UpdateDocumentDone(c) ==
    /\ pc[c] = "updateDocument"
    /\ LET r == StoreUpdateDocument(storeDocuments, StoreCallOf(c).request)
       IN  /\ storeDocuments' = r.documents
           /\ Settle(c, LET t == convertExampleDocumentsToStackbitDocuments(
                                     <<r.document>>, call[c].options.modelMap, ManageUrl)
                        IN  IF t.ok THEN Ok(t.value[1]) ELSE t)
    /\ UNCHANGED oneShotFrame

\* deleteDocument up to its await.  Its first statement is the store call.
DeleteDocumentBegin(c, id) ==
    /\ Begins(c)
    /\ LET p == PendingCall("deleteDocument", [document |-> [id |-> id]])
       IN  IF apiClient = 0
           THEN Reject(c, p, TypeErrorUndefined("deleteDocument"))
           ELSE Await(c, p, [documentId |-> id])
    /\ UNCHANGED oneShotFrame

\* The store has deleted the document; deleteDocument returns.
DeleteDocumentDone(c) ==
    /\ pc[c] = "deleteDocument"
    /\ storeDocuments' = StoreDeleteDocument(storeDocuments, StoreCallOf(c).request)
    /\ Settle(c, Ok(Undefined))
    /\ UNCHANGED oneShotFrame

\* publishDocuments up to its await.  Its first statement is the store call.
PublishDocumentsBegin(c, ids) ==
    /\ Begins(c)
    /\ LET p == PendingCall("publishDocuments",
                        [documents |-> [i \in 1..Len(ids) |-> [id |-> ids[i]]]])
       IN  IF apiClient = 0
           THEN Reject(c, p, TypeErrorUndefined("publishDocuments"))
           ELSE Await(c, p, [documentIds |-> ids])
    /\ UNCHANGED oneShotFrame

\* The store has published the documents; publishDocuments returns.
PublishDocumentsDone(c) ==
    /\ pc[c] = "publishDocuments"
    /\ storeDocuments' = StorePublishDocuments(storeDocuments, StoreCallOf(c).request)
    /\ Settle(c, Ok(Undefined))
    /\ UNCHANGED oneShotFrame

\* An uploadAsset that sends whatever url it has to the store.
UploadAssetBegin_NoUrlCheck(c, options) ==
    /\ Begins(c)
    /\ LET p == PendingCall("uploadAsset", options)
       IN  IF apiClient = 0
           THEN Reject(c, p, TypeErrorUndefined("debug"))
           ELSE Await(c, p, [url    |-> IF "url" \in DOMAIN options
                                        THEN options.url ELSE Undefined,
                             title  |-> options.fileName,
                             width  |-> UploadWidth,
                             height |-> UploadHeight])
    /\ UNCHANGED oneShotFrame

\* uploadAsset up to its await: without a url it rejects.
UploadAssetBegin(c, options) ==
    /\ Begins(c)
    /\ LET p == PendingCall("uploadAsset", options)
       IN  IF apiClient = 0
           THEN Reject(c, p, TypeErrorUndefined("debug"))
           ELSE IF NoUrl(options)
           THEN Reject(c, p, <<"uploading assets from base64 is not supported">>)
           ELSE Await(c, p, [url    |-> options.url,
                             title  |-> options.fileName,
                             width  |-> UploadWidth,
                             height |-> UploadHeight])
    /\ UNCHANGED oneShotFrame

\* The store has answered with the asset; uploadAsset converts it.  The
\* record of the call keeps the store's answer beside the returned asset.
UploadAssetDone(c) ==
    /\ pc[c] = "uploadAsset"
    /\ \E asset \in StoreUploadAsset(StoreCallOf(c).request) :
          result' = [result EXCEPT ![c] =
                        Completed(call[c], Ok(convertExampleAssetToStackbitAssets(
                                                  <<asset>>, ManageUrl, SiteLocalhost)[1]))
                            @@ [reply |-> asset]]
    /\ pc' = [pc EXCEPT ![c] = "idle"]
    /\ call' = [call EXCEPT ![c] = NoCall]
    /\ UNCHANGED <<storeCalls, calls, storeDocuments, oneShotFrame>>

InitFacade ==
    /\ InitObserver
    /\ InitCalls
    /\ hostModelMap \in HostModelMaps
    /\ convIn = [op |-> "none"]
    /\ convOut = NotCalled

\* The host sets the facade up once, before or between its one-shot calls.
InitOnce(c, webhookUrl) == inits = 0 /\ InitBegin(c, webhookUrl)

NextFacade ==
    \/ \E c \in Callers, w \in WebhookUrls : InitOnce(c, w)
    \/ \E c \in Callers : InitGotWebhook(c)
    \/ \E c \in Callers : InitCreatedWebhook(c)
    \/ \E c \in Callers : GetDocumentsBegin(c)
    \/ \E c \in Callers : GetDocumentsDone(c)
    \/ \E c \in Callers : GetAssetsBegin(c)
    \/ \E c \in Callers : GetAssetsDone(c)
    \/ \E c \in Callers, es \in FacadeFieldLists : CreateDocumentBegin(c, es)
    \/ \E c \in Callers : CreateDocumentDone(c)
    \/ \E c \in Callers, ops \in FacadeOperationLists : UpdateDocumentBegin(c, ops)
    \/ \E c \in Callers : UpdateDocumentDone(c)
    \/ \E c \in Callers, id \in FacadeDeleteIds : DeleteDocumentBegin(c, id)
    \/ \E c \in Callers : DeleteDocumentDone(c)
    \/ \E c \in Callers, ids \in FacadePublishIds : PublishDocumentsBegin(c, ids)
    \/ \E c \in Callers : PublishDocumentsDone(c)
    \/ \E c \in Callers, o \in FacadeUploadOptions : UploadAssetBegin(c, o)
    \/ \E c \in Callers : UploadAssetDone(c)

SpecFacade == InitFacade /\ [][NextFacade]_vars


(***************************************************************************)
(* Properties of the change observer, checked under Spec.                  *)
(***************************************************************************)

Pending(c) == pc[c] # "idle"

\* C1: with start and stop calls issued one after another on a facade that
\* init() has set up at most once, the store never holds more than one
\* subscription of the bridge, and a start that found a stored handle
\* subscribes only once the store has dropped that handle.
C1_AtMostOneSubscription ==
    inits <= 1 =>
        /\ Cardinality(storeObservers) <= 1
        /\ \A c \in Callers : pc[c] = "start:subscribing" => storeObservers = {}

\* start() while Watching has completed: the first handle was stopped and
\* only the second is live.
C1_Witness ==
    /\ AllIdle
    /\ inits = 1
    /\ storeCalls = <<[op |-> "start", observerId |-> 0, client |-> 1],
                      [op |-> "stop", observerId |-> 1, client |-> 1],
                      [op |-> "start", observerId |-> 0, client |-> 1]>>
    /\ storeObservers = {2}
    /\ observerId = 2

\* C2: a stop issued when no start was ever made, or right after a completed
\* stop, calls nothing on the store and changes no state of the facade or
\* the store.
C2_SecondStopIsNoOp ==
    [][\A c \in Callers :
          (StopCall(c) /\ lastDone \in {"none", "stop"}) =>
              UNCHANGED <<storeCalls, storeObservers, storeNextId, observerId, pc, arg>>]_vars

\* C3: every native batch a live subscription receives has produced one
\* change event handed to the host's onContentChange.
C3_EveryBatchDelivered == Len(delivered) = observed

\* C4: on a facade that init() has set up at most once, once stop has
\* completed and until the host issues the next start, a batch the store
\* emits reaches no callback: nothing is translated and nothing is delivered.
C4_NoTranslationAfterStop ==
    [][(inits <= 1 /\ lastDone = "stop" /\ AllIdle) =>
          (observed' = observed /\ delivered' = delivered)]_vars

\* start, one batch observed, stop completed, then a second non-empty batch
\* that no callback received.
C4_Witness ==
    /\ AllIdle
    /\ lastDone = "stop"
    /\ inits = 1
    /\ storeCalls = <<[op |-> "start", observerId |-> 0, client |-> 1],
                      [op |-> "stop", observerId |-> 1, client |-> 1]>>
    /\ emits = 2
    /\ observed = 1
    /\ lastEmit.events # <<>>
    /\ DOMAIN lastEmit.results = {}

\* The deliveries to the host callback that have begun and not returned.
InProgress(deliveries) == {i \in 1..Len(deliveries) : ~deliveries[i].done}

IsDocumentEvent(e) == e.name \in {"document-created", "document-updated"}

IsDeletedEvent(e) == e.name = "document-deleted"

IsAssetEvent(e) == e.name = "asset-created"

\* What a batch's change event must hold, list by list.
ExpectedDocuments(events, modelMap) ==
    LET es == SelectSeq(events, IsDocumentEvent)
    IN  [i \in 1..Len(es) |->
            convertExampleDocumentsToStackbitDocuments(<<es[i].document>>, modelMap, ManageUrl)]

ExpectedDeletedIds(events) ==
    LET es == SelectSeq(events, IsDeletedEvent)
    IN  [i \in 1..Len(es) |-> es[i].documentId]

ExpectedAssets(events) ==
    LET es == SelectSeq(events, IsAssetEvent)
    IN  [i \in 1..Len(es) |-> ConvertAsset(es[i].asset, ManageUrl, SiteLocalhost)]

\* C6: the change event the callback assembles from a batch holds the
\* translations of the batch's document-created/updated events, the ids of
\* its document-deleted events and the translations of its asset-created
\* events, each in batch order; events of other kinds add nothing, and the
\* callback fails only where the translation of one of its documents fails.
C6_BatchAssembly ==
    (convOut.called /\ convIn.op = "observerCallback") =>
        LET ds == ExpectedDocuments(convIn.events, convIn.modelMap)
        IN  IF \A i \in 1..Len(ds) : ds[i].ok
            THEN /\ convOut.ok
                 /\ convOut.value.documents = [i \in 1..Len(ds) |-> ds[i].value[1]]
                 /\ convOut.value.deletedDocumentIds = ExpectedDeletedIds(convIn.events)
                 /\ convOut.value.assets = ExpectedAssets(convIn.events)
                 /\ convOut.value.deletedAssetIds = <<>>
            ELSE /\ ~convOut.ok
                 /\ \E i \in 1..Len(ds) :
                       /\ ~ds[i].ok
                       /\ convOut.error = ds[i].error
                       /\ \A j \in 1..(i - 1) : ds[j].ok

\* The callback assembled an event from the batch [p2 updated, an event of
\* an unknown kind, p1 created]: the documents are p2 then p1.
C6_Witness ==
    /\ convOut.called
    /\ convIn.op = "observerCallback"
    /\ Len(convIn.events) = 3
    /\ convIn.events[1].name = "document-updated"
    /\ convIn.events[1].document.id = "p2"
    /\ convIn.events[2].name = "asset-deleted"
    /\ convIn.events[3].name = "document-created"
    /\ convIn.events[3].document.id = "p1"
    /\ convOut.ok
    /\ Len(convOut.value.documents) = 2
    /\ convOut.value.documents[1].id = "p2"
    /\ convOut.value.documents[2].id = "p1"

(***************************************************************************)
(* Properties of the converters, checked under SpecConv.                   *)
(***************************************************************************)

DocsCalled == convOut.called /\ convIn.op = "getDocuments"

NativeFieldNames(document) == {document.fields[j].name : j \in 1..Len(document.fields)}

DescriptorNames(model) ==
    IF "fields" \in DOMAIN model
    THEN {model.fields[j].name : j \in 1..Len(model.fields)}
    ELSE {}

\* The type tag the model gives a field name it declares.
DescriptorType(model, name) ==
    LET j == CHOOSE k \in 1..Len(model.fields) :
                 /\ model.fields[k].name = name
                 /\ \A l \in 1..(k - 1) : model.fields[l].name # name
    IN  model.fields[j].type

\* The positions <<document, entry>> at which a document of a known model
\* carries a field its model declares with a composite type.
CompositeHits(documents, modelMap) ==
    {<<i, j>> \in (1..Len(documents)) \X (1..Len(FieldOrder)) :
        /\ j <= Len(documents[i].fields)
        /\ documents[i].type \in DOMAIN modelMap
        /\ documents[i].fields[j].name \in DescriptorNames(modelMap[documents[i].type])
        /\ DescriptorType(modelMap[documents[i].type], documents[i].fields[j].name)
               \in CompositeTypes}

Before(p, q) == p[1] < q[1] \/ (p[1] = q[1] /\ p[2] < q[2])

\* C7: translating documents whose type has no entry in the model map
\* yields one entity per document, each with an empty field map, and raises
\* no error, whatever fields the documents carry.
C7_UnknownModelYieldsEmptyFields ==
    (DocsCalled /\ \A i \in 1..Len(convIn.documents) :
                       convIn.documents[i].type \notin DOMAIN convIn.modelMap) =>
        /\ convOut.ok
        /\ Len(convOut.value) = Len(convIn.documents)
        /\ \A i \in 1..Len(convOut.value) : convOut.value[i].fields = EmptyObject

\* C8: when every document's model is in the map, the translation fails
\* only if a document carries a field its model declares as composite;
\* otherwise each normalized document has exactly the native field names its
\* model descriptor also declares.
C8_FieldsAreModelFields ==
    (DocsCalled /\ \A i \in 1..Len(convIn.documents) :
                       convIn.documents[i].type \in DOMAIN convIn.modelMap) =>
        IF CompositeHits(convIn.documents, convIn.modelMap) = {}
        THEN /\ convOut.ok
             /\ Len(convOut.value) = Len(convIn.documents)
             /\ \A i \in 1..Len(convOut.value) :
                   DOMAIN convOut.value[i].fields =
                       NativeFieldNames(convIn.documents[i])
                           \cap DescriptorNames(convIn.modelMap[convIn.documents[i].type])
        ELSE ~convOut.ok /\ convOut.error # TypeErrorUndefinedModel

\* C9: a translated document has status added for native draft, published
\* for native published and modified for any other native status; a
\* translated asset has status published.
C9_StatusMapping ==
    /\ (DocsCalled /\ convOut.ok) =>
          \A i \in 1..Len(convOut.value) :
              LET native == convIn.documents[i].status
                  status == convOut.value[i].status
              IN  /\ native = "draft" => status = "added"
                  /\ native = "published" => status = "published"
                  /\ native \notin {"draft", "published"} => status = "modified"
    /\ (convOut.called /\ convIn.op = "getAssets") =>
          /\ convOut.ok
          /\ Len(convOut.value) = Len(convIn.assets)
          /\ \A i \in 1..Len(convOut.value) : convOut.value[i].status = "published"

\* Two documents were translated, one draft and one of a status the code
\* does not name.
C9_Witness ==
    /\ DocsCalled
    /\ convOut.ok
    /\ Len(convOut.value) = 2
    /\ convIn.documents[1].status = "draft"
    /\ convIn.documents[2].status = "changed"

\* The first update-operation field the field-map loop fails on.
FirstThrowing(entries) ==
    LET bad == {j \in 1..Len(entries) : entries[j].field.type \notin ScalarTypes \cup {"reference"}}
    IN  IF bad = {} THEN 0 ELSE CHOOSE j \in bad : \A k \in bad : j <= k

\* C10: a document field whose model type is composite makes the whole
\* translation call fail, returning no document, with the error naming the
\* tag of the first such field met; an update-operation field of composite
\* type makes the field-map conversion fail with the error naming its tag.
C10_CompositeFails ==
    /\ DocsCalled =>
          LET hits == CompositeHits(convIn.documents, convIn.modelMap)
          IN  hits # {} =>
                 /\ ~convOut.ok
                 /\ "value" \notin DOMAIN convOut
                 /\ convOut.error # TypeErrorUndefinedModel =>
                       LET h == CHOOSE p \in hits : \A q \in hits : p = q \/ Before(p, q)
                           d == convIn.documents[h[1]]
                           t == DescriptorType(convIn.modelMap[d.type], d.fields[h[2]].name)
                       IN  /\ t \in CompositeTypes
                           /\ convOut.error = <<"field of type ", t, " not implemented">>
    /\ (convOut.called /\ convIn.op = "createDocument") =>
          LET j == FirstThrowing(convIn.updateOperationFields)
          IN  (j # 0 /\ convIn.updateOperationFields[j].field.type \in CompositeTypes) =>
                 /\ ~convOut.ok
                 /\ convOut.error = <<"updating field of type ",
                                      convIn.updateOperationFields[j].field.type,
                                      " not implemented">>

\* The first document translated, the second met a composite field, and the
\* call returned no document.
C10_Witness ==
    /\ DocsCalled
    /\ Len(convIn.documents) = 2
    /\ CompositeHits(convIn.documents, convIn.modelMap) # {}
    /\ \A p \in CompositeHits(convIn.documents, convIn.modelMap) : p[1] = 2
    /\ convIn.documents[1].type \in DOMAIN convIn.modelMap
    /\ Len(convIn.documents[1].fields) >= 1
    /\ ~convOut.ok
    /\ convOut.error # TypeErrorUndefinedModel

FieldsCalled == convOut.called /\ convIn.op = "createDocument"

\* C11: an update-operation field of type image or reference converts to
\* the id it refers to, without an error.
C11_ImageAndReferenceDenormalize ==
    (FieldsCalled /\ \A j \in 1..Len(convIn.updateOperationFields) :
                         convIn.updateOperationFields[j].field.type \in {"image", "reference"}) =>
        /\ convOut.ok
        /\ \A j \in 1..Len(convIn.updateOperationFields) :
              LET e == convIn.updateOperationFields[j]
              IN  e.name \in DOMAIN convOut.value /\ convOut.value[e.name] = e.field.refId

\* C12: a native value under a model field of type image becomes a reference
\* to the asset of that id, under a field of type reference a reference to
\* the document of that id, and under a scalar tag the same value with that
\* tag.
C12_NormalizedFieldShape ==
    (DocsCalled /\ convOut.ok) =>
        \A i \in 1..Len(convOut.value) :
            LET d == convIn.documents[i]
            IN  \A j \in 1..Len(d.fields) :
                    LET n == d.fields[j].name
                        v == d.fields[j].value
                    IN  (d.type \in DOMAIN convIn.modelMap
                             /\ n # "__proto__"
                             /\ n \in DescriptorNames(convIn.modelMap[d.type])) =>
                            LET t == DescriptorType(convIn.modelMap[d.type], n)
                                f == convOut.value[i].fields[n]
                            IN  /\ t = "image" =>
                                      f = [type |-> "reference", refType |-> "asset", refId |-> v]
                                /\ t = "reference" =>
                                      f = [type |-> "reference", refType |-> "document", refId |-> v]
                                /\ t \in ScalarTypes => f = [type |-> t, value |-> v]

\* A document was translated whose model types one field as image and the
\* other as reference.
C12_Witness ==
    /\ DocsCalled
    /\ convOut.ok
    /\ Len(convIn.documents) = 1
    /\ convIn.documents[1].type \in DOMAIN convIn.modelMap
    /\ Len(convIn.documents[1].fields) = 2
    /\ DOMAIN convOut.value[1].fields = {"title", "author"}
    /\ DescriptorType(convIn.modelMap[convIn.documents[1].type], "title") = "image"
    /\ DescriptorType(convIn.modelMap[convIn.documents[1].type], "author") = "reference"

\* C13: for every scalar tag, a field sent through toNative and then
\* toNormalized is the field again, and a native value sent through
\* toNormalized and then toNative is the value again.
C13_ScalarRoundTrip ==
    (convOut.called /\ convIn.op = "codecRoundTrip" /\ convIn.type \in ScalarTypes) =>
        /\ convOut.value.nativeThenNormalized =
              Ok([type |-> convIn.type, value |-> convIn.value])
        /\ convOut.value.normalizedThenNative = Ok(convIn.value)

\* Both round trips were made for a rich-text value.
C13_Witness ==
    /\ convOut.called
    /\ convIn.op = "codecRoundTrip"
    /\ convIn.type = "richText"
    /\ convOut.value.normalizedThenNative.ok
    /\ convOut.value.nativeThenNormalized.ok

OpsCalled == convOut.called /\ convIn.op = "updateDocument"

\* The first segments of the operations' paths.
FirstSegments(operations) == {operations[j].fieldPath[1] : j \in 1..Len(operations)}

\* The last operation on key k.
LastOn(operations, k) ==
    CHOOSE j \in 1..Len(operations) :
        /\ operations[j].fieldPath[1] = k
        /\ \A l \in (j + 1)..Len(operations) : operations[l].fieldPath[1] # k

\* What a succeeding operation leaves at its key.
ResultOf(operation) ==
    CASE operation.opType = "unset" -> Undefined
      [] operation.opType = "set" /\ operation.field.type = "reference" -> operation.field.refId
      [] OTHER -> operation.field.value

\* C14: when every operation succeeds, the patch has one key for each first
\* path segment, and a key's value is the result of the last operation on
\* that segment; deeper segments play no part.
C14_LastWriteWins ==
    (OpsCalled /\ convOut.ok) =>
        /\ DOMAIN convOut.value = FirstSegments(convIn.operations)
        /\ \A k \in FirstSegments(convIn.operations) :
              convOut.value[k] = ResultOf(convIn.operations[LastOn(convIn.operations, k)])

\* The operation throws: a field type the converters refuse, or a kind other
\* than set and unset.
OperationFails(operation) ==
    CASE operation.opType = "set" -> operation.field.type \in {"image"} \cup CompositeTypes
      [] operation.opType = "unset" -> operation.modelField.type \in CompositeTypes
      [] OTHER -> TRUE

\* Operation i is reached: none before it throws.
Reached(operations, i) == \A j \in 1..(i - 1) : ~OperationFails(operations[j])

\* C15: an unset of a scalar, reference or image field leaves its key in the
\* patch with the value undefined; an unset of a composite field fails with
\* the error naming the field type.
C15_UnsetByFieldType ==
    OpsCalled =>
        \A i \in 1..Len(convIn.operations) :
            LET operation == convIn.operations[i]
            IN  (operation.opType = "unset" /\ Reached(convIn.operations, i)) =>
                    IF operation.modelField.type \in CompositeTypes
                    THEN /\ ~convOut.ok
                         /\ convOut.error = <<"updating field of type ",
                                              operation.modelField.type, " not implemented">>
                    ELSE (convOut.ok /\ LastOn(convIn.operations, operation.fieldPath[1]) = i) =>
                             /\ operation.fieldPath[1] \in DOMAIN convOut.value
                             /\ convOut.value[operation.fieldPath[1]] = Undefined

UnknownKind(operation) == operation.opType \notin {"set", "unset"}

\* C16, as stated: a list with an operation of another kind, at any
\* position, fails with the error naming such a kind.
C16_UnknownKindAnywhere ==
    (OpsCalled /\ \E i \in 1..Len(convIn.operations) : UnknownKind(convIn.operations[i])) =>
        /\ ~convOut.ok
        /\ \E i \in 1..Len(convIn.operations) :
              /\ UnknownKind(convIn.operations[i])
              /\ convOut.error = <<"'", convIn.operations[i].opType, "' operation not implemented">>

\* C16, amended: a list with an operation of another kind fails and returns
\* no patch; the error names that kind when no operation before it fails,
\* and is the error of the first failing operation otherwise.
C16_UnknownKindWhenReached ==
    OpsCalled =>
        \A i \in 1..Len(convIn.operations) :
            UnknownKind(convIn.operations[i]) =>
                /\ ~convOut.ok
                /\ "value" \notin DOMAIN convOut
                /\ Reached(convIn.operations, i) =>
                      convOut.error = <<"'", convIn.operations[i].opType,
                                        "' operation not implemented">>
                /\ ~Reached(convIn.operations, i) =>
                      \E j \in 1..(i - 1) :
                          /\ OperationFails(convIn.operations[j])
                          /\ Reached(convIn.operations, j)
                          /\ convOut.error = OperationValue(convIn.operations[j]).error

\* A remove operation after a succeeding set made the call fail.
C16_Witness ==
    /\ OpsCalled
    /\ Len(convIn.operations) = 2
    /\ convIn.operations[1].opType = "set"
    /\ ~OperationFails(convIn.operations[1])
    /\ convIn.operations[2].opType = "remove"
    /\ ~convOut.ok
    /\ convOut.error = <<"'", "remove", "' operation not implemented">>

\* The store calls a completed call made.
StoreCallsOf(r) ==
    SelectSeq(storeCalls, LAMBDA s : "call" \in DOMAIN s /\ s.call = r.call)

\* The uploadAsset calls completed on a facade init() had set up.
UploadsDone ==
    {result[c] : c \in {d \in Callers : /\ result[d].called
                                         /\ result[d].op = "uploadAsset"
                                         /\ result[d].client # 0}}

\* C17: on a facade init() has set up, without a source url uploadAsset fails
\* with the unsupported-upload error and the store sees no call of it; with
\* one the store sees exactly one uploadAsset call of it and the result is
\* the translation of the asset the store answered with.
C17_UploadNeedsUrl ==
    \A r \in UploadsDone :
        IF "url" \notin DOMAIN r.options \/ r.options.url = ""
        THEN /\ ~r.ok
             /\ r.error = <<"uploading assets from base64 is not supported">>
             /\ StoreCallsOf(r) = <<>>
        ELSE /\ Len(StoreCallsOf(r)) = 1
             /\ StoreCallsOf(r)[1].op = "uploadAsset"
             /\ StoreCallsOf(r)[1].client = r.client
             /\ StoreCallsOf(r)[1].request = [url |-> r.options.url,
                                              title |-> r.options.fileName,
                                              width |-> 100, height |-> 100]
             /\ r.ok
             /\ LET reply == r.reply
                    asset == r.value
                IN  /\ asset.type = "asset"
                    /\ asset.id = reply.id
                    /\ asset.status = "published"
                    /\ asset.createdAt = reply.createdAt
                    /\ asset.updatedAt = reply.updatedAt
                    /\ asset.manageUrl = <<ManageUrl, "/assets/", reply.id>>
                    /\ asset.fields.title = [type |-> "string", value |-> reply.title]
                    /\ asset.fields.file.url = <<SiteLocalhost, reply.url>>
                    /\ asset.fields.file.dimensions =
                          [width |-> reply.width, height |-> reply.height]

\* An upload from a url went through the store and came back translated,
\* while an upload without one was rejected.
C17_Witness ==
    \E r, q \in UploadsDone :
        /\ "url" \in DOMAIN r.options
        /\ r.options.url # ""
        /\ r.ok
        /\ Len(StoreCallsOf(r)) = 1
        /\ r.value.id = r.reply.id
        /\ r.value.fields.title.value = r.options.fileName
        /\ "url" \notin DOMAIN q.options
        /\ ~q.ok
        /\ StoreCallsOf(q) = <<>>

\* C18: every batch is translated with the model map the host's getModelMap
\* returns when the batch is dispatched, whatever it returned at subscription
\* or for an earlier batch.
C18_ModelMapAtDispatch ==
    [][emits' = emits + 1 =>
          \A h \in DOMAIN lastEmit'.results :
              LET ds == ExpectedDocuments(lastEmit'.events, hostModelMap')
                  r  == lastEmit'.results[h]
              IN  IF \A i \in 1..Len(ds) : ds[i].ok
                  THEN r.ok /\ r.value.documents = [i \in 1..Len(ds) |-> ds[i].value[1]]
                  ELSE ~r.ok]_vars

\* The host's model map changed between two batches, and the subscription's
\* callback translated the second batch's document with the new map.
C18_Witness ==
    /\ lastEmit.emitted
    /\ lastEmit.earlier # <<>>
    /\ lastEmit.earlier[1] # lastEmit.modelMap
    /\ lastEmit.earlier[1]["post"].fields[1].type = "string"
    /\ DOMAIN lastEmit.results # {}
    /\ \A h \in DOMAIN lastEmit.results :
          /\ lastEmit.results[h].ok
          /\ Len(lastEmit.results[h].value.documents) = 1
          /\ lastEmit.results[h].value.documents[1].fields["title"].type = "text"

\* C19: when start calls overlap on a facade that init() has set up at most
\* once, once they have all returned the store has at most one live
\* subscription, and its handle is the one in observerId.
C19_OverlappingStartsOneSubscription ==
    (inits <= 1 /\ AllIdle) =>
        /\ Cardinality(storeObservers) <= 1
        /\ \A h \in storeObservers : h = observerId

\* C20: on a facade that init() has set up at most once, between completed
\* calls observerId is set exactly when the store has a live subscription
\* with that handle, and the store has no other.
C20_HandleIffLiveSubscription ==
    (inits <= 1 /\ AllIdle) =>
        /\ observerId # 0 <=> observerId \in storeObservers
        /\ \A h \in storeObservers : h = observerId

\* The call's conversion fails: a field of createDocument, or an operation of
\* updateDocument, throws.
ConversionFails(r) ==
    \/ /\ r.op = "createDocument"
       /\ \E j \in 1..Len(r.options.updateOperationFields) :
             r.options.updateOperationFields[j].field.type \in {"image"} \cup CompositeTypes
    \/ /\ r.op = "updateDocument"
       /\ \E i \in 1..Len(r.options.operations) : OperationFails(r.options.operations[i])

\* Flow c's one-shot call completes in this step.
Completes(c) ==
    /\ result'[c].called
    /\ result[c].called => result'[c].call # result[c].call

\* C21: a createDocument or updateDocument call whose conversion fails
\* throws without a call to the store: the step in which it fails leaves the
\* store's call log and documents as they were, and the log holds no call of
\* it, whatever valid fields or operations come before the failing one.
C21_NoStoreCallOnConversionFailure ==
    [][\A c \in Callers :
          (Completes(c) /\ ConversionFails(result'[c])) =>
              /\ ~result'[c].ok
              /\ "value" \notin DOMAIN result'[c]
              /\ storeCalls' = storeCalls
              /\ storeDocuments' = storeDocuments
              /\ \A k \in 1..Len(storeCalls) :
                    "call" \in DOMAIN storeCalls[k] => storeCalls[k].call # result'[c].call]_vars

\* On a facade init() has set up, an updateDocument call with a valid set on
\* title followed by a remove failed on the remove, and the store was left
\* alone.
C21_Witness ==
    \E c \in Callers :
        /\ result[c].called
        /\ result[c].op = "updateDocument"
        /\ result[c].client # 0
        /\ Len(result[c].options.operations) = 2
        /\ result[c].options.operations[1].opType = "set"
        /\ ~OperationFails(result[c].options.operations[1])
        /\ result[c].options.operations[2].opType = "remove"
        /\ ~result[c].ok
        /\ result[c].error = <<"'", "remove", "' operation not implemented">>
        /\ StoreCallsOf(result[c]) = <<>>
        /\ storeCalls # <<>>
        /\ storeDocuments["p1"].fields = <<[name |-> "title", value |-> "Hi"]>>

====
